---- MODULE Spec2Model ----
(***************************************************************************)
(* Model of the AutoWechatCrawler job-lifecycle core:                      *)
(*   - EnhancedProxyManager (src/src/core/enhanced_proxy_manager.py):      *)
(*     the mutex-guarded proxy lease with its failure breaker;             *)
(*   - AccountStatusManager (src/src/database/account_status_manager.py):  *)
(*     fx_account_status and fx_compensation_history;                      *)
(*   - LoopCrawler (src/loop_crawler.py): one round of the control loop.   *)
(***************************************************************************)
EXTENDS Integers, Sequences, FiniteSets, TLC

(***************************************************************************)
(* Bounds of the model                                                     *)
(***************************************************************************)
\* number of concurrent callers of get_current_proxy() in ProxySpec
NumThreads == 2
\* last instant of the coarse clock of ProxySpec
MaxTime == 100
\* last instant of the one-second clock of LeaseSpec
MaxLeaseTime == 52

(***************************************************************************)
(* Program constants: defaults of EnhancedProxyManager.__init__            *)
(***************************************************************************)
ip_lifetime == 60
refresh_buffer == 10
max_retries == 3
fallback_after_failures == 3

\* server (host:port) values the provider may answer with
Servers == {"s1", "s2"}
\* self.upstream_proxy = None, self.proxy_expiry_time = None
None == "None"
NoExpiry == -1
\* threading.Lock() not held by anybody
Free == 0

VARIABLES
    \* ---- EnhancedProxyManager fields
    enabled,                \* self.enabled
    upstream_proxy,         \* self.upstream_proxy
    proxy_expiry_time,      \* self.proxy_expiry_time
    consecutive_failures,   \* self.consecutive_failures
    proxy_lock,             \* holder of self.proxy_lock, Free when released
    \* ---- callers of get_current_proxy()
    threads,                \* the callers that exist in this run
    pc,                     \* position of each caller inside get_current_proxy
    attempt,                \* provider requests started by the caller's call
    waits,                  \* time.sleep(retry_delay) calls of the caller's call
    res,                    \* value returned by _refresh_proxy_if_needed
    result,                 \* value returned by the caller's last call
    \* ---- environment and history
    now,                    \* datetime.now(), in seconds
    clockEnd,               \* last instant of the clock in this run
    lastRefresh,            \* instant of the last successful refresh
    failStreak,             \* failed refresh() calls since the last success
    \* ---- the database
    account_status,         \* table fx_account_status, one row per account_id
    compensation_history,   \* table fx_compensation_history, a set of rows
    crawl_exception,        \* table fx_crawl_exception, in insertion order
    today,                  \* CURDATE() / datetime.now().date(), a day number
    accounts,               \* the account_ids the callers of this run use
    \* ---- LoopCrawler
    run_args,               \* command line and files: dry_run, once, targets, ...
    rpc,                    \* position inside run_one_round / loop
    round_num,              \* round_num of loop
    is_test_mode,           \* self.is_test_mode
    pending,                \* pending of run_one_round
    attempted,              \* attempted_accounts of _run_cmd
    outcome,                \* how subprocess.run ended
    all_ok,                 \* all_ok of _run_cmd
    launches,               \* processes of loop_crawler.py started so far
    sleep_time              \* sleep_time of loop, in seconds

proxyVars == <<enabled, upstream_proxy, proxy_expiry_time, consecutive_failures,
               proxy_lock, threads, pc, attempt, waits, res, result, now,
               clockEnd,
               lastRefresh, failStreak>>

storeVars == <<account_status, compensation_history, crawl_exception, today,
               accounts>>

orchVars == <<run_args, rpc, round_num, is_test_mode, pending, attempted,
              outcome, all_ok, launches, sleep_time>>

vars == <<proxyVars, storeVars, orchVars>>

leaseFields == <<upstream_proxy, proxy_expiry_time, consecutive_failures, enabled>>

(***************************************************************************)
(* EnhancedProxyManager                                                    *)
(***************************************************************************)

\* a validity test that still accepts the lease at the buffered expiry
IsProxyValid_mut(en, expiry, t) ==
    IF ~en THEN FALSE
    ELSE IF expiry = NoExpiry THEN FALSE
    ELSE IF t > expiry - refresh_buffer THEN FALSE
    ELSE TRUE

\* _is_proxy_valid, lines 74-98
IsProxyValid(en, expiry, t) ==
    IF ~en THEN FALSE
    ELSE IF expiry = NoExpiry THEN FALSE
    ELSE IF t >= expiry - refresh_buffer THEN FALSE
    ELSE TRUE

\* a threshold test that trips one round late
BreakerTrips_mut(cf) == cf > fallback_after_failures

\* the threshold test of _get_new_proxy, line 251
BreakerTrips(cf) == cf >= fallback_after_failures

\* f"http://{server}", line 176
ProxyUrl(server) == "http://" \o server

ProxyInitWith(nThreads, lastInstant) ==
    /\ enabled = TRUE
    /\ upstream_proxy = None
    /\ proxy_expiry_time = NoExpiry
    /\ consecutive_failures = 0
    /\ proxy_lock = Free
    /\ threads = 1..nThreads
    /\ pc = [t \in 1..nThreads |-> "idle"]
    /\ attempt = [t \in 1..nThreads |-> 0]
    /\ waits = [t \in 1..nThreads |-> 0]
    /\ res = [t \in 1..nThreads |-> FALSE]
    /\ result = [t \in 1..nThreads |-> "n/a"]
    /\ now = 0
    /\ clockEnd = lastInstant
    /\ lastRefresh = NoExpiry
    /\ failStreak = 0

\* a caller enters get_current_proxy()
Call(t) ==
    /\ pc[t] = "idle"
    /\ pc' = [pc EXCEPT ![t] = "gcp"]
    /\ attempt' = [attempt EXCEPT ![t] = 0]
    /\ waits' = [waits EXCEPT ![t] = 0]
    /\ result' = [result EXCEPT ![t] = "n/a"]
    /\ UNCHANGED <<leaseFields, proxy_lock, threads, res, now, clockEnd,
                   lastRefresh, failStreak>>
    /\ UNCHANGED <<storeVars, orchVars>>

\* get_current_proxy, lines 258-260: unlocked read of self.enabled
CheckEnabledOuter(t) ==
    /\ pc[t] = "gcp"
    /\ IF ~enabled
       THEN /\ pc' = [pc EXCEPT ![t] = "idle"]
            /\ result' = [result EXCEPT ![t] = None]
       ELSE /\ pc' = [pc EXCEPT ![t] = "rin"]
            /\ UNCHANGED result
    /\ UNCHANGED <<leaseFields, proxy_lock, threads, attempt, waits, res, now,
                   clockEnd, lastRefresh, failStreak>>
    /\ UNCHANGED <<storeVars, orchVars>>

\* _refresh_proxy_if_needed, lines 102-104: second unlocked read; a False
\* return makes get_current_proxy return None (lines 270-273)
CheckEnabledInner(t) ==
    /\ pc[t] = "rin"
    /\ IF ~enabled
       THEN /\ pc' = [pc EXCEPT ![t] = "idle"]
            /\ result' = [result EXCEPT ![t] = None]
       ELSE /\ pc' = [pc EXCEPT ![t] = "wait"]
            /\ UNCHANGED result
    /\ UNCHANGED <<leaseFields, proxy_lock, threads, attempt, waits, res, now,
                   clockEnd, lastRefresh, failStreak>>
    /\ UNCHANGED <<storeVars, orchVars>>

\* a lock that hands itself out while it is held
LockAvailable_mut(lock) == TRUE

\* threading.Lock.acquire blocks until the lock is released
LockAvailable(lock) == lock = Free

\* with self.proxy_lock, line 106
Acquire(t) ==
    /\ pc[t] = "wait"
    /\ LockAvailable(proxy_lock)
    /\ proxy_lock' = t
    /\ pc' = [pc EXCEPT ![t] = "locked"]
    /\ UNCHANGED <<leaseFields, threads, attempt, waits, res, result, now, clockEnd,
                   lastRefresh, failStreak>>
    /\ UNCHANGED <<storeVars, orchVars>>

\* lines 107-117: a valid lease returns True and leaves the with block,
\* anything else goes on to _get_new_proxy()
CheckValid(t) ==
    /\ pc[t] = "locked"
    /\ IF IsProxyValid(enabled, proxy_expiry_time, now)
       THEN /\ pc' = [pc EXCEPT ![t] = "ret"]
            /\ res' = [res EXCEPT ![t] = TRUE]
            /\ proxy_lock' = Free
       ELSE /\ pc' = [pc EXCEPT ![t] = "req"]
            /\ UNCHANGED <<res, proxy_lock>>
    /\ UNCHANGED <<leaseFields, threads, attempt, waits, result, now, clockEnd,
                   lastRefresh, failStreak>>
    /\ UNCHANGED <<storeVars, orchVars>>

\* _get_new_proxy, line 148: requests.get(...) of attempt number attempt[t]
StartRequest(t) ==
    /\ pc[t] = "req"
    /\ attempt[t] < max_retries
    /\ attempt' = [attempt EXCEPT ![t] = @ + 1]
    /\ pc' = [pc EXCEPT ![t] = "resp"]
    /\ UNCHANGED <<leaseFields, proxy_lock, threads, waits, res, result, now,
                   clockEnd, lastRefresh, failStreak>>
    /\ UNCHANGED <<storeVars, orchVars>>

\* lines 174-208: the answer carries a server
ResponseOk(t, server) ==
    /\ pc[t] = "resp"
    /\ upstream_proxy' = ProxyUrl(server)
    /\ proxy_expiry_time' = now + ip_lifetime
    /\ consecutive_failures' = 0
    /\ UNCHANGED enabled
    /\ lastRefresh' = now
    /\ failStreak' = 0
    /\ res' = [res EXCEPT ![t] = TRUE]
    /\ proxy_lock' = Free
    /\ pc' = [pc EXCEPT ![t] = "ret"]
    /\ UNCHANGED <<threads, attempt, waits, result, now, clockEnd>>
    /\ UNCHANGED <<storeVars, orchVars>>

\* a failed attempt that counts as a failed round
ResponseFailRetry_mut(t) ==
    /\ pc[t] = "resp"
    /\ attempt[t] < max_retries
    /\ pc' = [pc EXCEPT ![t] = "req"]
    /\ waits' = [waits EXCEPT ![t] = @ + 1]
    /\ consecutive_failures' = consecutive_failures + 1
    /\ UNCHANGED <<upstream_proxy, proxy_expiry_time, enabled, proxy_lock,
                   threads, attempt, res, result, now, clockEnd, lastRefresh,
                   failStreak>>
    /\ UNCHANGED <<storeVars, orchVars>>

\* lines 209-240: the attempt failed and another one follows
ResponseFailRetry(t) ==
    /\ pc[t] = "resp"
    /\ attempt[t] < max_retries
    /\ pc' = [pc EXCEPT ![t] = "req"]
    /\ waits' = [waits EXCEPT ![t] = @ + 1]
    /\ UNCHANGED <<leaseFields, proxy_lock, threads, attempt, res, result,
                   now, clockEnd, lastRefresh, failStreak>>
    /\ UNCHANGED <<storeVars, orchVars>>

\* a failed refresh that leaves the function without releasing the lock
ResponseFailLast_mut(t) ==
    /\ pc[t] = "resp"
    /\ attempt[t] >= max_retries
    /\ consecutive_failures' = consecutive_failures + 1
    /\ enabled' = IF BreakerTrips(consecutive_failures + 1) THEN FALSE ELSE enabled
    /\ UNCHANGED <<upstream_proxy, proxy_expiry_time>>
    /\ failStreak' = failStreak + 1
    /\ res' = [res EXCEPT ![t] = FALSE]
    /\ UNCHANGED proxy_lock
    /\ pc' = [pc EXCEPT ![t] = "ret"]
    /\ UNCHANGED <<threads, attempt, waits, result, now, clockEnd, lastRefresh>>
    /\ UNCHANGED <<storeVars, orchVars>>

\* lines 242-254: the last attempt failed
ResponseFailLast(t) ==
    /\ pc[t] = "resp"
    /\ attempt[t] >= max_retries
    /\ consecutive_failures' = consecutive_failures + 1
    /\ enabled' = IF BreakerTrips(consecutive_failures + 1) THEN FALSE ELSE enabled
    /\ UNCHANGED <<upstream_proxy, proxy_expiry_time>>
    /\ failStreak' = failStreak + 1
    /\ res' = [res EXCEPT ![t] = FALSE]
    /\ proxy_lock' = Free
    /\ pc' = [pc EXCEPT ![t] = "ret"]
    /\ UNCHANGED <<threads, attempt, waits, result, now, clockEnd, lastRefresh>>
    /\ UNCHANGED <<storeVars, orchVars>>

\* line 154: result.get on a JSON answer that is not an object raises
\* AttributeError, which no except clause of _get_new_proxy catches; the
\* with block releases the lock and the exception leaves get_current_proxy
ResponseRaises(t) ==
    /\ pc[t] = "resp"
    /\ proxy_lock' = Free
    /\ pc' = [pc EXCEPT ![t] = "idle"]
    /\ result' = [result EXCEPT ![t] = "raised"]
    /\ UNCHANGED <<leaseFields, threads, attempt, waits, res, now, clockEnd,
                   lastRefresh, failStreak>>
    /\ UNCHANGED <<storeVars, orchVars>>

\* a get_current_proxy that serves the cached address after a failed refresh
Return_mut(t) ==
    /\ pc[t] = "ret"
    /\ result' = [result EXCEPT ![t] = upstream_proxy]
    /\ pc' = [pc EXCEPT ![t] = "idle"]
    /\ UNCHANGED <<leaseFields, proxy_lock, threads, attempt, waits, res, now,
                   clockEnd, lastRefresh, failStreak>>
    /\ UNCHANGED <<storeVars, orchVars>>

\* get_current_proxy, lines 270-294
Return(t) ==
    /\ pc[t] = "ret"
    /\ result' = [result EXCEPT ![t] = IF res[t] THEN upstream_proxy ELSE None]
    /\ pc' = [pc EXCEPT ![t] = "idle"]
    /\ UNCHANGED <<leaseFields, proxy_lock, threads, attempt, waits, res, now,
                   clockEnd, lastRefresh, failStreak>>
    /\ UNCHANGED <<storeVars, orchVars>>

\* the wall clock advances by d seconds
Tick(d) ==
    /\ now + d <= clockEnd
    /\ now' = now + d
    /\ UNCHANGED <<leaseFields, proxy_lock, threads, pc, attempt, waits, res, result,
                   clockEnd, lastRefresh, failStreak>>
    /\ UNCHANGED <<storeVars, orchVars>>

ThreadStep(t) ==
    \/ Call(t)
    \/ CheckEnabledOuter(t)
    \/ CheckEnabledInner(t)
    \/ Acquire(t)
    \/ CheckValid(t)
    \/ StartRequest(t)
    \/ \E s \in Servers : ResponseOk(t, s)
    \/ ResponseFailRetry(t)
    \/ ResponseFailLast(t)
    \/ ResponseRaises(t)
    \/ Return(t)

(***************************************************************************)
(* AccountStatusManager: fx_account_status and fx_compensation_history     *)
(***************************************************************************)

\* last day number of StoreSpec and of Spec
MaxDay == 1
\* retry_count stops growing here
MaxRetryCount == 1
\* last day number of WindowSpec
MaxWindowDay == 8

\* failed_date >= CURDATE() - INTERVAL 7 DAY, lines 529 and 561
compensation_window == 7

\* the account_ids (URLs) that occur
Accounts == {"a1", "a2"}
\* SQL NULL / Python None in a text or timestamp column
NULL == "NULL"
\* a timestamp that is set (next_retry_time)
SomeTime == "T"
\* SQL NULL in a date column
NoDate == -1
\* no row of fx_account_status has this account_id
NoRow == [status |-> "NoRow"]
\* exception messages written by the crawler
Msgs == {"e1"}
\* reasons passed to mark_compensation_failed
Reasons == {"r1"}

FailedStatuses == {"EXCEPTION", "FAILED"}

HasRow(tbl, a) == tbl[a] # NoRow

\* the row inserted by initialize_account_status, lines 56-71; the columns
\* the INSERT does not name take their column defaults
NewRow(name) ==
    [account_name |-> name, status |-> "PENDING", retry_count |-> 0,
     last_exception_msg |-> NULL, next_retry_time |-> NULL,
     compensation_priority |-> 0, consecutive_failures |-> 0,
     last_failed_date |-> NoDate, failed_reason_backup |-> NULL]

\* account_name of the target with this account_id
NameOf(a) == "name-" \o a

\* an initialisation that replaces the row it finds (REPLACE INTO)
InitializeAccountStatus_mut(tbl, a, name) == [tbl EXCEPT ![a] = NewRow(name)]

\* initialize_account_status, lines 29-81
InitializeAccountStatus(tbl, a, name) ==
    IF HasRow(tbl, a) THEN tbl ELSE [tbl EXCEPT ![a] = NewRow(name)]

\* update_account_status, lines 83-132: exception_msg = NULL stands for an
\* omitted argument; the result is whether a row was affected
UpdateAccountStatus(tbl, a, status, exception_msg) ==
    IF ~HasRow(tbl, a) THEN [tbl |-> tbl, ret |-> FALSE]
    ELSE [tbl |-> [tbl EXCEPT ![a] =
                     [@ EXCEPT !.status = status,
                               !.last_exception_msg =
                                   IF exception_msg # NULL THEN exception_msg ELSE @]],
          ret |-> TRUE]

\* reset_account_for_retry, lines 207-254
ResetAccountForRetry(tbl, a, exception_msg) ==
    IF ~HasRow(tbl, a) THEN [tbl |-> tbl, ret |-> FALSE]
    ELSE [tbl |-> [tbl EXCEPT ![a] =
                     [@ EXCEPT !.status = "RETRYING",
                               !.retry_count = @ + 1,
                               !.next_retry_time = SomeTime,
                               !.last_exception_msg =
                                   IF exception_msg # NULL THEN exception_msg ELSE @]],
          ret |-> TRUE]

\* update_last_crawl_time, lines 581-615
UpdateLastCrawlTime(tbl, a) ==
    IF ~HasRow(tbl, a) THEN [tbl |-> tbl, ret |-> FALSE]
    ELSE [tbl |-> [tbl EXCEPT ![a] = [@ EXCEPT !.status = "ACTIVE"]], ret |-> TRUE]

\* a selection that also takes the rows still flagged for compensation
IsFailedRow_mut(row) ==
    \/ row.status \in FailedStatuses
    \/ row.compensation_priority > 0

\* WHERE status IN ('EXCEPTION', 'FAILED'), lines 708-712
IsFailedRow(row) == row.status \in FailedStatuses

\* account['last_exception_msg'] or f"状态异常: {account['status']}", line 738
FailureReason(row) ==
    IF row.last_exception_msg # NULL THEN row.last_exception_msg
    ELSE "status:" \o row.status

\* the rows of fx_compensation_history with the unique key (account_id, failed_date)
KeyRows(hist, a, d) == {h \in hist : h.account_id = a /\ h.failed_date = d}

\* INSERT IGNORE: an existing row keeps its failure_reason
UpsertPending_mut(hist, a, name, d, reason) ==
    IF KeyRows(hist, a, d) # {} THEN hist
    ELSE hist \cup {[account_id |-> a, account_name |-> name, failed_date |-> d,
                     failure_reason |-> reason, compensation_status |-> "PENDING",
                     compensation_date |-> NoDate]}

\* INSERT ... VALUES (.., 'PENDING') ON DUPLICATE KEY UPDATE failure_reason =
\* VALUES(failure_reason), update_time = CURRENT_TIMESTAMP, lines 723-730
UpsertPending(hist, a, name, d, reason) ==
    IF KeyRows(hist, a, d) # {}
    THEN {IF h \in KeyRows(hist, a, d)
          THEN [h EXCEPT !.failure_reason = reason] ELSE h : h \in hist}
    ELSE hist \cup {[account_id |-> a, account_name |-> name, failed_date |-> d,
                     failure_reason |-> reason, compensation_status |-> "PENDING",
                     compensation_date |-> NoDate]}

\* the rows executemany writes, one per failed account, lines 732-741
RECURSIVE UpsertAll(_, _, _, _)
UpsertAll(hist, tbl, todo, d) ==
    IF todo = {} THEN hist
    ELSE LET a == CHOOSE x \in todo : TRUE
         IN  UpsertAll(UpsertPending(hist, a, tbl[a].account_name, d,
                                     FailureReason(tbl[a])),
                       tbl, todo \ {a}, d)

\* _record_failed_accounts_for_compensation, lines 696-747
RecordFailedAccountsForCompensation(tbl, hist, d) ==
    UpsertAll(hist, tbl, {a \in Accounts : HasRow(tbl, a) /\ IsFailedRow(tbl[a])}, d)

\* step 2a of reset_all_accounts_to_pending, lines 639-662.  MySQL evaluates
\* the assignments of a single-table UPDATE from left to right and an
\* expression reads the value a column has at that moment, so each CASE
\* below sees the assignments made before it.
SnapshotRow(row, d) ==
    IF row.status \notin {"EXCEPTION", "FAILED", "RETRYING"} THEN row
    ELSE
    LET r1 == [row EXCEPT !.failed_reason_backup =
                   IF row.status \in FailedStatuses /\ row.last_exception_msg # NULL
                   THEN row.last_exception_msg ELSE @]
        r2 == [r1 EXCEPT !.last_failed_date =
                   IF /\ r1.status \in FailedStatuses
                      /\ (r1.last_failed_date = NoDate \/ r1.last_failed_date < d)
                   THEN d ELSE @]
        r3 == [r2 EXCEPT !.compensation_priority =
                   IF r2.status \in FailedStatuses THEN 1
                   ELSE IF r2.status = "RETRYING" THEN 1 ELSE @]
        r4 == [r3 EXCEPT !.consecutive_failures =
                   IF /\ r3.status \in FailedStatuses
                      /\ (r3.last_failed_date = NoDate \/ r3.last_failed_date < d)
                   THEN @ + 1
                   ELSE IF r3.status = "COMPLETED" THEN 0 ELSE @]
    IN  r4

\* a reset that also zeroes the retry counter
ResetStatusRow_mut(row) ==
    IF row.status = "PENDING" THEN row
    ELSE [row EXCEPT !.status = "PENDING", !.last_exception_msg = NULL,
                     !.next_retry_time = NULL, !.retry_count = 0]

\* step 2b of reset_all_accounts_to_pending, lines 665-674
ResetStatusRow(row) ==
    IF row.status = "PENDING" THEN row
    ELSE [row EXCEPT !.status = "PENDING", !.last_exception_msg = NULL,
                     !.next_retry_time = NULL]

SnapshotPhase(tbl, d) ==
    [a \in Accounts |-> IF HasRow(tbl, a) THEN SnapshotRow(tbl[a], d) ELSE tbl[a]]

ResetPhase(tbl) ==
    [a \in Accounts |-> IF HasRow(tbl, a) THEN ResetStatusRow(tbl[a]) ELSE tbl[a]]

\* reset_all_accounts_to_pending, lines 617-694
ResetAllAccountsToPending(tbl, hist, d) ==
    [tbl  |-> ResetPhase(SnapshotPhase(tbl, d)),
     hist |-> RecordFailedAccountsForCompensation(tbl, hist, d),
     ret  |-> TRUE]

\* a selection without the 7-day window
InWindow_mut(h, a, d) ==
    /\ h.account_id = a
    /\ h.compensation_status = "PENDING"

\* WHERE account_id = %s AND compensation_status = 'PENDING'
\*   AND failed_date >= CURDATE() - INTERVAL 7 DAY, lines 527-529 and 560-561
InWindow(h, a, d) ==
    /\ h.account_id = a
    /\ h.compensation_status = "PENDING"
    /\ h.failed_date >= d - compensation_window

\* the UPDATE of fx_account_status without its WHERE account_id = %s
MarkCompensationCompleted_mut(tbl, hist, a, d) ==
    [tbl  |-> [b \in Accounts |->
                  IF HasRow(tbl, b)
                  THEN [tbl[b] EXCEPT !.compensation_priority = 0,
                                      !.consecutive_failures = 0]
                  ELSE tbl[b]],
     hist |-> {IF InWindow(h, a, d)
               THEN [h EXCEPT !.compensation_status = "COMPLETED",
                              !.compensation_date = d]
               ELSE h : h \in hist},
     ret  |-> TRUE]

\* mark_compensation_completed, lines 493-541
MarkCompensationCompleted(tbl, hist, a, d) ==
    [tbl  |-> IF HasRow(tbl, a)
              THEN [tbl EXCEPT ![a] = [@ EXCEPT !.compensation_priority = 0,
                                                !.consecutive_failures = 0]]
              ELSE tbl,
     hist |-> {IF InWindow(h, a, d)
               THEN [h EXCEPT !.compensation_status = "COMPLETED",
                              !.compensation_date = d]
               ELSE h : h \in hist},
     ret  |-> TRUE]

\* an UPDATE to FAILED without its compensation_status = 'PENDING' condition
MarkCompensationFailed_mut(tbl, hist, a, reason, d) ==
    IF {h \in hist : h.account_id = a /\ h.failed_date >= d - compensation_window} # {}
    THEN [tbl |-> tbl,
          hist |-> {IF h.account_id = a /\ h.failed_date >= d - compensation_window
                    THEN [h EXCEPT !.compensation_status = "FAILED"]
                    ELSE h : h \in hist},
          ret |-> TRUE]
    ELSE [tbl |-> tbl, hist |-> hist, ret |-> TRUE]

\* mark_compensation_failed, lines 543-578.  When the UPDATE affects no row
\* the INSERT ... SELECT adds a FAILED row for today; it adds nothing when
\* the account has no status row and raises a duplicate-key error (caught,
\* result False) when a row for (account_id, today) exists.
MarkCompensationFailed(tbl, hist, a, reason, d) ==
    IF {h \in hist : InWindow(h, a, d)} # {}
    THEN [tbl |-> tbl,
          hist |-> {IF InWindow(h, a, d)
                    THEN [h EXCEPT !.compensation_status = "FAILED",
                                   !.failure_reason = IF reason # NULL THEN reason ELSE @]
                    ELSE h : h \in hist},
          ret |-> TRUE]
    ELSE IF ~HasRow(tbl, a) THEN [tbl |-> tbl, hist |-> hist, ret |-> TRUE]
    ELSE IF KeyRows(hist, a, d) # {} THEN [tbl |-> tbl, hist |-> hist, ret |-> FALSE]
    ELSE [tbl |-> tbl,
          hist |-> hist \cup {[account_id |-> a, account_name |-> tbl[a].account_name,
                               failed_date |-> d, failure_reason |-> reason,
                               compensation_status |-> "FAILED",
                               compensation_date |-> NoDate]},
          ret |-> TRUE]

\* the store as DatabaseManager finds it before any account is known
StoreInitWith(accs) ==
    /\ account_status = [a \in Accounts |-> NoRow]
    /\ compensation_history = {}
    /\ crawl_exception = <<>>
    /\ today = 0
    /\ accounts = accs

\* ---- the operations as steps of a caller of the store

Initialize(a) ==
    /\ account_status' = InitializeAccountStatus(account_status, a, NameOf(a))
    /\ UNCHANGED <<compensation_history, crawl_exception, today, accounts, proxyVars, orchVars>>

UpdateStatus(a, status, msg) ==
    LET r == UpdateAccountStatus(account_status, a, status, msg)
    IN  /\ account_status' = r.tbl
        /\ UNCHANGED <<compensation_history, crawl_exception, today, accounts, proxyVars, orchVars>>

ResetForRetry(a, msg) ==
    LET r == ResetAccountForRetry(account_status, a, msg)
    IN  /\ HasRow(account_status, a) => account_status[a].retry_count < MaxRetryCount
        /\ account_status' = r.tbl
        /\ UNCHANGED <<compensation_history, crawl_exception, today, accounts, proxyVars, orchVars>>

LastCrawlTime(a) ==
    LET r == UpdateLastCrawlTime(account_status, a)
    IN  /\ account_status' = r.tbl
        /\ UNCHANGED <<compensation_history, crawl_exception, today, accounts, proxyVars, orchVars>>

MarkCompleted(a) ==
    LET r == MarkCompensationCompleted(account_status, compensation_history, a, today)
    IN  /\ account_status' = r.tbl
        /\ compensation_history' = r.hist
        /\ UNCHANGED <<crawl_exception, today, accounts, proxyVars, orchVars>>

MarkFailed(a, reason) ==
    LET r == MarkCompensationFailed(account_status, compensation_history, a, reason, today)
    IN  /\ account_status' = r.tbl
        /\ compensation_history' = r.hist
        /\ UNCHANGED <<crawl_exception, today, accounts, proxyVars, orchVars>>

\* record_current_failures_to_compensation, lines 749-754
RecordCurrentFailures ==
    /\ compensation_history' =
           RecordFailedAccountsForCompensation(account_status, compensation_history, today)
    /\ UNCHANGED <<account_status, crawl_exception, today, accounts, proxyVars, orchVars>>

ResetAll ==
    LET r == ResetAllAccountsToPending(account_status, compensation_history, today)
    IN  /\ account_status' = r.tbl
        /\ compensation_history' = r.hist
        /\ UNCHANGED <<crawl_exception, today, accounts, proxyVars, orchVars>>

\* midnight passes
NextDay ==
    /\ today < MaxDay
    /\ today' = today + 1
    /\ UNCHANGED <<account_status, compensation_history, crawl_exception, accounts, proxyVars, orchVars>>

\* the callers come back to the store d days later
DaysPass(d) ==
    /\ today + d <= MaxWindowDay
    /\ today' = today + d
    /\ UNCHANGED <<account_status, compensation_history, crawl_exception, accounts, proxyVars, orchVars>>

(***************************************************************************)
(* LoopCrawler: one round is reset, compensation pass, full pass           *)
(***************************************************************************)

\* rounds the loop of Spec starts
MaxRounds == 2
\* processes of loop_crawler.py that run one after the other in Spec
MaxLaunches == 2

\* the target lists the Excel file may hold (account_id per row)
TargetLists == {<<>>, <<"a1">>, <<"a1", "a2">>}

\* what the crawl executable leaves in an attempted account's status row:
\* nothing (no database, or another account_id), or the last status it wrote
CrawlWrites == {"none", "PROCESSING", "COMPLETED", "EXCEPTION"}

\* how subprocess.run ends: return code 0, another return code,
\* TimeoutExpired, or any other exception of the launch
Outcomes == {"exit0", "nonzero", "timeout", "exception"}

Range(seq) == {seq[i] : i \in DOMAIN seq}

\* MIN(failed_date) of the PENDING rows of an account, line 372
FirstFailedDate(hist, a) ==
    LET ds == {h.failed_date : h \in {x \in hist : x.account_id = a
                                          /\ x.compensation_status = "PENDING"}}
    IN  CHOOSE d \in ds : \A e \in ds : d <= e

\* accounts with a PENDING row, lines 374-376
PendingAccounts(hist) ==
    {a \in Accounts : \E h \in hist : h.account_id = a /\ h.compensation_status = "PENDING"}

\* get_pending_compensation_accounts, lines 358-400, without a limit: the
\* orders ORDER BY first_failed_date ASC allows
PendingOrders(hist) ==
    LET pa == PendingAccounts(hist)
        n  == Cardinality(pa)
    IN  {s \in [1..n -> pa] :
            /\ \A i, j \in 1..n : i # j => s[i] # s[j]
            /\ \A i, j \in 1..n :
                  i < j => FirstFailedDate(hist, s[i]) <= FirstFailedDate(hist, s[j])}

\* ---- the same query on rows that carry their update_time column

\* values of the update_time column
UpdateTimes == {1, 2}

\* a row of fx_compensation_history with its update_time
TimedRecord(a, d, st, u) ==
    [account_id |-> a, account_name |-> NameOf(a), failed_date |-> d,
     failure_reason |-> "e1", compensation_status |-> st,
     compensation_date |-> NoDate, update_time |-> u]

\* the tables with at most one row per (account_id, failed_date)
TimedTables ==
    LET keys == Accounts \X (0..MaxDay)
        opts == {<<"absent", 0>>} \cup ({"PENDING", "COMPLETED"} \X UpdateTimes)
    IN  {{TimedRecord(k[1], k[2], f[k][1], f[k][2]) :
              k \in {x \in keys : f[x][1] # "absent"}} : f \in [keys -> opts]}

\* WHERE compensation_status = 'PENDING' GROUP BY account_id, account_name
\* with MIN(failed_date) and MAX(update_time), lines 372-376
GroupRows(hist) ==
    LET pend == {h \in hist : h.compensation_status = "PENDING"}
        grp(a, n) == {h \in pend : h.account_id = a /\ h.account_name = n}
    IN  {[account_id |-> h.account_id, account_name |-> h.account_name,
          first_failed_date |->
              CHOOSE d \in {x.failed_date : x \in grp(h.account_id, h.account_name)} :
                  \A x \in grp(h.account_id, h.account_name) : d <= x.failed_date,
          last_update |->
              CHOOSE u \in {x.update_time : x \in grp(h.account_id, h.account_name)} :
                  \A x \in grp(h.account_id, h.account_name) : u >= x.update_time]
         : h \in pend}

\* an order that puts the least recently updated account first
OrderedBefore_mut(r1, r2) ==
    \/ r1.first_failed_date < r2.first_failed_date
    \/ /\ r1.first_failed_date = r2.first_failed_date
       /\ r1.last_update <= r2.last_update

\* ORDER BY first_failed_date ASC, last_update DESC, line 377: r1 may stand
\* before r2
OrderedBefore(r1, r2) ==
    \/ r1.first_failed_date < r2.first_failed_date
    \/ /\ r1.first_failed_date = r2.first_failed_date
       /\ r1.last_update >= r2.last_update

\* get_pending_compensation_accounts(limit), lines 358-400: the lists of
\* account_id the SELECT may return (rows equal in both keys come in any
\* order); limit 0 means no LIMIT clause
GetPendingCompensationAccounts(hist, limit) ==
    LET rows == GroupRows(hist)
        n    == Cardinality(rows)
        k    == IF limit > 0 /\ limit < n THEN limit ELSE n
        sorted == {s \in [1..n -> rows] :
                      /\ \A i, j \in 1..n : i # j => s[i] # s[j]
                      /\ \A i, j \in 1..n : i < j => OrderedBefore(s[i], s[j])}
    IN  {[i \in 1..k |-> s[i].account_id] : s \in sorted}

\* a caller runs the query
Query(limit) ==
    /\ pending' \in GetPendingCompensationAccounts(compensation_history, limit)
    /\ UNCHANGED <<storeVars, run_args, rpc, round_num, is_test_mode, attempted,
                   outcome, all_ok, launches, sleep_time, proxyVars>>

\* a check that is satisfied by one COMPLETED row
IsFullSuccess_mut(tbl, attempted_accounts) ==
    IF attempted_accounts = <<>> THEN FALSE
    ELSE LET ids  == Range(attempted_accounts)
             rows == {a \in ids : HasRow(tbl, a)}
         IN  IF rows = {} THEN FALSE
             ELSE \E a \in rows : tbl[a].status = "COMPLETED"

\* _is_full_success, lines 368-393
IsFullSuccess(tbl, attempted_accounts) ==
    IF attempted_accounts = <<>> THEN FALSE
    ELSE LET ids  == Range(attempted_accounts)
             rows == {a \in ids : HasRow(tbl, a)}
         IN  IF rows = {} THEN FALSE
             ELSE \A a \in rows : tbl[a].status = "COMPLETED"

\* for r in attempted_accounts: mark_compensation_completed(r["account_id"])
RECURSIVE MarkAllCompleted(_, _, _, _)
MarkAllCompleted(tbl, hist, list, d) ==
    IF list = <<>> THEN [tbl |-> tbl, hist |-> hist]
    ELSE LET r == MarkCompensationCompleted(tbl, hist, Head(list), d)
         IN  MarkAllCompleted(r.tbl, r.hist, Tail(list), d)

\* for r in attempted_accounts: mark_compensation_failed(r["account_id"], ..)
RECURSIVE MarkAllFailed(_, _, _, _, _)
MarkAllFailed(tbl, hist, list, reason, d) ==
    IF list = <<>> THEN [tbl |-> tbl, hist |-> hist]
    ELSE LET r == MarkCompensationFailed(tbl, hist, Head(list), reason, d)
         IN  MarkAllFailed(r.tbl, r.hist, Tail(list), reason, d)

\* the reason _run_cmd passes to mark_compensation_failed: lines 341 and
\* 353, and str(e)[:200] of line 365
CompFailureReason(o) ==
    IF o = "nonzero" THEN "subprocess failed; see console"
    ELSE IF o = "timeout" THEN "timeout"
    ELSE "str(e)"

\* _run_cmd with mode "compensation", lines 320-326, 338-342, 351-353, 363-365
CompOutcome(tbl, hist, list, o, d) ==
    IF o = "exit0"
    THEN MarkAllCompleted(tbl, hist, list, d)
    ELSE MarkAllFailed(tbl, hist, list, CompFailureReason(o), d)

\* _run_cmd with mode "full", lines 295-319, 330-337, 344-350, 356-362:
\* the compensation history, the ledger and all_ok it leaves
FullOutcome(tbl, hist, ledger, list, o, test, d) ==
    IF o = "exit0"
    THEN IF IsFullSuccess(tbl, list)
         THEN [hist |-> hist,
               ledger |-> IF ~test THEN Append(ledger, "finished") ELSE ledger,
               all_ok |-> TRUE]
         ELSE IF ~test
              THEN [hist |-> RecordFailedAccountsForCompensation(tbl, hist, d),
                    ledger |-> Append(ledger, "unfinished"),
                    all_ok |-> FALSE]
              ELSE [hist |-> hist, ledger |-> ledger, all_ok |-> FALSE]
    ELSE [hist |-> RecordFailedAccountsForCompensation(tbl, hist, d),
          ledger |-> Append(ledger, "unfinished"),
          all_ok |-> all_ok]

\* the rows the crawl executable leaves behind: initialize_account_status
\* and update_account_status of AutomatedCrawler.run for each target
RECURSIVE CrawlerWrites(_, _, _)
CrawlerWrites(tbl, todo, w) ==
    IF todo = {} THEN tbl
    ELSE LET a  == CHOOSE x \in todo : TRUE
             t1 == InitializeAccountStatus(tbl, a, NameOf(a))
             t2 == UpdateAccountStatus(t1, a, w[a],
                       IF w[a] = "EXCEPTION" THEN "e1" ELSE NULL).tbl
         IN  CrawlerWrites(IF w[a] = "none" THEN tbl ELSE t2, todo \ {a}, w)

\* sys.exit(0) of main_enhanced needs AutomatedCrawler.run to return
\* successful_count > 0; with its database the crawler then has written
\* COMPLETED for a target, without a database it has written nothing
ExitCodeAllows(o, w, targetSet) ==
    /\ o = "exit0" =>
           \/ \E a \in targetSet : w[a] = "COMPLETED"
           \/ \A a \in targetSet : w[a] = "none"
    /\ o = "exception" => \A a \in targetSet : w[a] = "none"

OrchInitWith(argSet) ==
    /\ run_args \in argSet
    /\ rpc = "start"
    /\ round_num = 1
    /\ is_test_mode = FALSE
    /\ pending = <<>>
    /\ attempted = <<>>
    /\ outcome = "n/a"
    /\ all_ok = FALSE
    /\ launches = 1
    /\ sleep_time = 0

\* run_one_round(dry_run=args.dry_run) is the call of --once, line 492;
\* loop calls run_one_round without dry_run, line 413
DryRun == run_args.dry_run /\ run_args.once

\* the command lines of loop_crawler.py and the files they find
AllArgs ==
    [dry_run : BOOLEAN, once : BOOLEAN, test_name : BOOLEAN,
     excel_exists : BOOLEAN, script_exists : BOOLEAN, targets : TargetLists]

\* run_one_round, lines 125-131
StepReset ==
    /\ rpc = "start"
    /\ LET r == ResetAllAccountsToPending(account_status, compensation_history, today)
       IN  /\ account_status' = r.tbl
           /\ compensation_history' = r.hist
    /\ rpc' = "query"
    /\ sleep_time' = 0
    /\ UNCHANGED <<crawl_exception, today, accounts, run_args, round_num,
                   is_test_mode, pending, attempted, outcome, all_ok, launches,
                   proxyVars>>

\* reset_all_accounts_to_pending ends in its except clause (lines 692-694)
\* or raises: the statements before the failing one are committed
\* (autocommit); run_one_round logs and goes on, lines 130-131
StepResetFails ==
    /\ rpc = "start"
    /\ \E done \in 0..2 :
          /\ compensation_history' =
                 IF done >= 1
                 THEN RecordFailedAccountsForCompensation(
                          account_status, compensation_history, today)
                 ELSE compensation_history
          /\ account_status' =
                 IF done >= 2 THEN SnapshotPhase(account_status, today)
                 ELSE account_status
    /\ rpc' = "query"
    /\ sleep_time' = 0
    /\ UNCHANGED <<crawl_exception, today, accounts, run_args, round_num,
                   is_test_mode, pending, attempted, outcome, all_ok, launches,
                   proxyVars>>

\* run_one_round, lines 133-150
StepQuery ==
    /\ rpc = "query"
    /\ \E p \in PendingOrders(compensation_history) :
          /\ pending' = p
          /\ rpc' = IF p # <<>> THEN "comp" ELSE "full"
    /\ is_test_mode' = run_args.test_name
    /\ UNCHANGED <<storeVars, run_args, round_num, attempted, outcome, all_ok,
                   launches, sleep_time, proxyVars>>

\* run_one_round, lines 162-169: dry run of the compensation pass
StepCompDryRun ==
    /\ rpc = "comp"
    /\ DryRun
    /\ LET r == MarkAllCompleted(account_status, compensation_history, pending, today)
       IN  /\ account_status' = r.tbl
           /\ compensation_history' = r.hist
    /\ rpc' = "full"
    /\ UNCHANGED <<crawl_exception, today, accounts, run_args, round_num,
                   is_test_mode, pending, attempted, outcome, all_ok, launches, sleep_time, proxyVars>>

\* run_one_round, lines 170-189 and _run_cmd, lines 259-289: the
\* compensation crawl is launched unless the script file is missing
StepCompLaunch ==
    /\ rpc = "comp"
    /\ ~DryRun
    /\ attempted' = pending
    /\ rpc' = IF run_args.script_exists THEN "comp_wait" ELSE "full"
    /\ UNCHANGED <<storeVars, run_args, round_num, is_test_mode, pending,
                   outcome, all_ok, launches, sleep_time, proxyVars>>

\* the crawl executable runs and subprocess.run ends
CrawlRuns(o, w) ==
    /\ rpc \in {"comp_wait", "full_wait"}
    /\ ExitCodeAllows(o, w, Range(attempted))
    /\ account_status' = CrawlerWrites(account_status, Range(attempted), w)
    /\ outcome' = o
    /\ rpc' = IF rpc = "comp_wait" THEN "comp_handle" ELSE "full_handle"
    /\ UNCHANGED <<compensation_history, crawl_exception, today, accounts,
                   run_args, round_num, is_test_mode, pending, attempted,
                   all_ok, launches, sleep_time, proxyVars>>

\* _run_cmd with mode "compensation", lines 320-326, 338-342, 351-353, 363-365
StepCompHandle ==
    /\ rpc = "comp_handle"
    /\ LET r == CompOutcome(account_status, compensation_history, attempted,
                            outcome, today)
       IN  /\ account_status' = r.tbl
           /\ compensation_history' = r.hist
    /\ rpc' = "full"
    /\ UNCHANGED <<crawl_exception, today, accounts, run_args, round_num,
                   is_test_mode, pending, attempted, outcome, all_ok, launches, sleep_time, proxyVars>>

\* run_one_round, lines 198-226: the target file is missing, or the dry
\* run records a finished round
StepFullSkip ==
    /\ rpc = "full"
    /\ ~run_args.excel_exists \/ DryRun
    /\ crawl_exception' = IF run_args.excel_exists
                          THEN Append(crawl_exception, "finished")
                          ELSE crawl_exception
    /\ rpc' = "done"
    /\ UNCHANGED <<account_status, compensation_history, today, accounts,
                   run_args, round_num, is_test_mode, pending, attempted,
                   outcome, all_ok, launches, sleep_time, proxyVars>>

\* run_one_round, lines 227-257 and _run_cmd, lines 259-289: the full crawl
\* is launched unless the script file is missing
StepFullLaunch ==
    /\ rpc = "full"
    /\ run_args.excel_exists
    /\ ~DryRun
    /\ attempted' = run_args.targets
    /\ rpc' = IF run_args.script_exists THEN "full_wait" ELSE "done"
    /\ UNCHANGED <<storeVars, run_args, round_num, is_test_mode, pending,
                   outcome, all_ok, launches, sleep_time, proxyVars>>

\* _run_cmd with mode "full", lines 295-319, 330-337, 344-350, 356-362
StepFullHandle ==
    /\ rpc = "full_handle"
    /\ LET r == FullOutcome(account_status, compensation_history, crawl_exception,
                            attempted, outcome, is_test_mode, today)
       IN  /\ compensation_history' = r.hist
           /\ crawl_exception' = r.ledger
           /\ all_ok' = r.all_ok
    /\ rpc' = "done"
    /\ UNCHANGED <<account_status, today, accounts, run_args, round_num,
                   is_test_mode, pending, attempted, outcome, launches, sleep_time, proxyVars>>

\* self.interval_seconds, the default of lines 453-460
interval_seconds == 60

\* time.time() - start of a round, in half seconds: 10 s, 10.5 s, 90.5 s
ElapsedHalves == {20, 21, 181}

\* int(elapsed), line 430: truncation to whole seconds
IntSeconds(halves) == halves \div 2

\* a sleep of interval - elapsed rounded up to whole seconds
SleepTime_mut(halves) ==
    IF interval_seconds - (halves + 1) \div 2 > 0
    THEN interval_seconds - (halves + 1) \div 2 ELSE 0

\* max(0, self.interval_seconds - int(elapsed)), line 430
SleepTime(halves) ==
    IF interval_seconds - IntSeconds(halves) > 0
    THEN interval_seconds - IntSeconds(halves) ELSE 0

\* the round has ended and the process with it: --once (lines 490-497), or
\* loop mode with a test list (lines 426-428)
ProcessEnds == rpc = "done" /\ (run_args.once \/ is_test_mode)

\* a loop that starts the next round while the full crawl is still running
NextRound_mut(halves) ==
    /\ rpc \in {"done", "full_wait"}
    /\ ~ProcessEnds
    /\ round_num < MaxRounds
    /\ round_num' = round_num + 1
    /\ sleep_time' = SleepTime(halves)
    /\ rpc' = "start"
    /\ UNCHANGED <<storeVars, run_args, is_test_mode, pending, attempted,
                   outcome, all_ok, launches, proxyVars>>

\* loop, lines 405-434: the round took `halves` half seconds; the loop
\* sleeps and starts the next round unless the process ends
NextRound(halves) ==
    /\ rpc = "done"
    /\ ~ProcessEnds
    /\ round_num < MaxRounds
    /\ round_num' = round_num + 1
    /\ sleep_time' = SleepTime(halves)
    /\ rpc' = "start"
    /\ UNCHANGED <<storeVars, run_args, is_test_mode, pending, attempted,
                   outcome, all_ok, launches, proxyVars>>

\* an exception of the round that ends the loop
RoundRaises_mut ==
    /\ rpc = "comp" \/ (rpc = "full" /\ run_args.excel_exists)
    /\ ~DryRun
    /\ rpc' = IF run_args.once THEN "done" ELSE "crashed"
    /\ UNCHANGED <<storeVars, run_args, round_num, is_test_mode, pending,
                   attempted, outcome, all_ok, launches, sleep_time, proxyVars>>

\* an exception leaves run_one_round: the statements of lines 172-189 and
\* 229-257 that stand outside every try block (import pandas, os.makedirs,
\* to_excel, _get_python_executable).  loop catches it at the round
\* boundary (lines 417-418); with --once it ends the process (lines 504-507)
RoundRaises ==
    /\ rpc = "comp" \/ (rpc = "full" /\ run_args.excel_exists)
    /\ ~DryRun
    /\ rpc' = "done"
    /\ UNCHANGED <<storeVars, run_args, round_num, is_test_mode, pending,
                   attempted, outcome, all_ok, launches, sleep_time, proxyVars>>

\* KeyboardInterrupt: loop breaks (lines 414-416), or __main__ exits
\* (lines 501-503)
Interrupt ==
    /\ rpc \notin {"done", "interrupted"}
    /\ rpc' = "interrupted"
    /\ UNCHANGED <<storeVars, run_args, round_num, is_test_mode, pending,
                   attempted, outcome, all_ok, launches, sleep_time, proxyVars>>

\* the process has ended (--once, or a test list in loop mode) and
\* loop_crawler.py is started again on the same database
Restart(args) ==
    /\ ProcessEnds
    /\ launches < MaxLaunches
    /\ launches' = launches + 1
    /\ run_args' = args
    /\ rpc' = "start"
    /\ round_num' = 1
    /\ is_test_mode' = FALSE
    /\ pending' = <<>>
    /\ attempted' = <<>>
    /\ outcome' = "n/a"
    /\ all_ok' = FALSE
    /\ sleep_time' = 0
    /\ UNCHANGED <<storeVars, proxyVars>>

\* midnight passes while the loop runs
Midnight ==
    /\ today < MaxDay
    /\ today' = today + 1
    /\ UNCHANGED <<account_status, compensation_history, crawl_exception,
                   accounts, orchVars, proxyVars>>

Init ==
    /\ ProxyInitWith(0, 0)
    /\ StoreInitWith(Accounts)
    /\ OrchInitWith(AllArgs)

Next ==
    \/ StepReset
    \/ StepQuery
    \/ StepCompDryRun
    \/ StepCompLaunch
    \/ \E o \in Outcomes, w \in [Accounts -> CrawlWrites] : CrawlRuns(o, w)
    \/ StepCompHandle
    \/ StepFullSkip
    \/ StepFullLaunch
    \/ StepFullHandle
    \/ \E h \in ElapsedHalves : NextRound(h)
    \/ \E args \in AllArgs : Restart(args)
    \/ Midnight

Spec == Init /\ [][Next]_vars

\* the database an earlier process has left behind: nothing, or the rows of
\* a round whose full crawl of a1 ended with a non-zero exit
FailedRoundStore ==
    LET tbl == UpdateAccountStatus(
                   InitializeAccountStatus([a \in Accounts |-> NoRow], "a1", NameOf("a1")),
                   "a1", "EXCEPTION", "e1").tbl
    IN  [tbl |-> tbl,
         hist |-> RecordFailedAccountsForCompensation(tbl, {}, 0),
         ledger |-> <<"unfinished">>]

\* the command lines whose target list holds the one account a1
LoopArgs == {args \in AllArgs : args.targets = <<"a1">>}

\* what the crawl executable may write when a1 is its only target
LoopWrites == {w \in [Accounts -> CrawlWrites] : w["a2"] = "none"}

\* LoopSpec: one process of loop_crawler.py with its failures (a failing
\* reset, an exception inside the round, an interrupt), started on an empty
\* database or on the one a failed round has left
LoopInit ==
    /\ ProxyInitWith(0, 0)
    /\ OrchInitWith(LoopArgs)
    /\ today = 0
    /\ accounts = Accounts
    /\ \/ /\ account_status = [a \in Accounts |-> NoRow]
          /\ compensation_history = {}
          /\ crawl_exception = <<>>
       \/ /\ account_status = FailedRoundStore.tbl
          /\ compensation_history = FailedRoundStore.hist
          /\ crawl_exception = FailedRoundStore.ledger

LoopNext ==
    \/ StepReset
    \/ StepResetFails
    \/ StepQuery
    \/ StepCompDryRun
    \/ StepCompLaunch
    \/ \E o \in Outcomes, w \in LoopWrites : CrawlRuns(o, w)
    \/ StepCompHandle
    \/ StepFullSkip
    \/ StepFullLaunch
    \/ StepFullHandle
    \/ \E h \in ElapsedHalves : NextRound(h)
    \/ RoundRaises
    \/ Interrupt

LoopSpec == LoopInit /\ [][LoopNext]_vars

\* the statements of the single thread of loop_crawler.py: each one is
\* executed once it is reached; subprocess.run returns within its timeout
\* of 24 hours (line 288) and time.sleep returns
LoopProgress ==
    \/ StepReset
    \/ StepQuery
    \/ StepCompDryRun
    \/ StepCompLaunch
    \/ \E o \in Outcomes, w \in LoopWrites : CrawlRuns(o, w)
    \/ StepCompHandle
    \/ StepFullSkip
    \/ StepFullLaunch
    \/ StepFullHandle
    \/ \E h \in ElapsedHalves : NextRound(h)

LoopFairSpec == LoopInit /\ [][LoopNext]_vars /\ WF_vars(LoopProgress)

\* the command lines of a production run on the list a1, a2
ScopeArgs ==
    {args \in AllArgs : /\ args.targets = <<"a1", "a2">>
                        /\ ~args.dry_run /\ ~args.test_name
                        /\ args.excel_exists /\ args.script_exists}

\* ScopeSpec: production runs of loop_crawler.py on the list a1, a2, one
\* process after the other on the same database
ScopeInit ==
    /\ ProxyInitWith(0, 0)
    /\ StoreInitWith(Accounts)
    /\ OrchInitWith(ScopeArgs)

ScopeNext ==
    \/ StepReset
    \/ StepQuery
    \/ StepCompLaunch
    \/ \E o \in Outcomes, w \in [Accounts -> CrawlWrites] : CrawlRuns(o, w)
    \/ StepCompHandle
    \/ StepFullLaunch
    \/ StepFullHandle
    \/ \E h \in ElapsedHalves : NextRound(h)
    \/ \E args \in ScopeArgs : Restart(args)

ScopeSpec == ScopeInit /\ [][ScopeNext]_vars

\* StoreSpec: the callers of the store invoke its operations in any order
\* the command lines of a production run in loop mode on the list a1
DrainArgs ==
    {args \in LoopArgs : /\ ~args.dry_run /\ ~args.once /\ ~args.test_name
                         /\ args.excel_exists /\ args.script_exists}

\* DrainSpec: the rounds of the loop of loop_crawler.py on the list a1, on
\* an empty database or on the one a failed round has left, with the
\* machine possibly coming back more than a week later
DrainInit ==
    /\ ProxyInitWith(0, 0)
    /\ OrchInitWith(DrainArgs)
    /\ today = 0
    /\ accounts = Accounts
    /\ \/ /\ account_status = [a \in Accounts |-> NoRow]
          /\ compensation_history = {}
          /\ crawl_exception = <<>>
       \/ /\ account_status = FailedRoundStore.tbl
          /\ compensation_history = FailedRoundStore.hist
          /\ crawl_exception = <<>>

\* the statements of the loop: each one is executed once it is reached
DrainProgress ==
    \/ StepReset
    \/ StepQuery
    \/ StepCompLaunch
    \/ \E o \in Outcomes, w \in LoopWrites : CrawlRuns(o, w)
    \/ StepCompHandle
    \/ StepFullLaunch
    \/ StepFullHandle
    \/ \E h \in ElapsedHalves : NextRound(h)

DrainNext ==
    \/ StepReset
    \/ StepQuery
    \/ StepCompLaunch
    \/ \E o \in Outcomes, w \in LoopWrites : CrawlRuns(o, w)
    \/ StepCompHandle
    \/ StepFullLaunch
    \/ StepFullHandle
    \/ \E h \in ElapsedHalves : NextRound(h)
    \/ DaysPass(compensation_window + 1)

DrainSpec == DrainInit /\ [][DrainNext]_vars /\ WF_vars(DrainProgress)

StoreNext ==
    \/ \E a \in accounts : Initialize(a)
    \/ \E a \in accounts, s \in {"PROCESSING", "COMPLETED"} :
           UpdateStatus(a, s, NULL)
    \/ \E a \in accounts, s \in FailedStatuses, m \in Msgs \cup {NULL} :
           UpdateStatus(a, s, m)
    \/ \E a \in accounts : ResetForRetry(a, NULL)
    \/ \E a \in accounts : LastCrawlTime(a)
    \/ \E a \in accounts : MarkCompleted(a)
    \/ \E a \in accounts, r \in Reasons : MarkFailed(a, r)
    \/ RecordCurrentFailures
    \/ ResetAll
    \/ NextDay

\* ProxySpec: concurrent callers, the clock moves by one validity period
\* the loop is not running
NoLoop ==
    OrchInitWith({[dry_run |-> FALSE, once |-> TRUE, test_name |-> FALSE, excel_exists |-> TRUE, script_exists |-> TRUE, targets |-> <<>>]})

ProxyInit == ProxyInitWith(NumThreads, MaxTime) /\ StoreInitWith({}) /\ NoLoop

ProxyNext ==
    \/ \E t \in threads : ThreadStep(t)
    \/ Tick(ip_lifetime - refresh_buffer)

ProxySpec == ProxyInit /\ [][ProxyNext]_vars

\* the statements of a caller that do not wait for anything but the
\* provider, which always answers or times out (timeout=request_timeout,
\* line 148)
Proceed(t) ==
    \/ CheckEnabledOuter(t)
    \/ CheckEnabledInner(t)
    \/ CheckValid(t)
    \/ StartRequest(t)
    \/ \E s \in Servers : ResponseOk(t, s)
    \/ ResponseFailRetry(t)
    \/ ResponseFailLast(t)
    \/ ResponseRaises(t)
    \/ Return(t)

\* MutexSpec: concurrent callers at one instant of the clock, under fair
\* scheduling: a caller that can go on does, and a caller that waits for
\* the lock gets it if the lock is released again and again
MutexInit == ProxyInitWith(NumThreads, 0) /\ StoreInitWith({}) /\ NoLoop

MutexNext == \E t \in threads : ThreadStep(t)

MutexSpec ==
    /\ MutexInit
    /\ [][MutexNext]_vars
    /\ \A t \in 1..NumThreads : WF_vars(Proceed(t)) /\ SF_vars(Acquire(t))

\* LeaseSpec: one caller, the clock moves second by second
LeaseInit == ProxyInitWith(1, MaxLeaseTime) /\ StoreInitWith({}) /\ NoLoop

LeaseNext ==
    \/ \E t \in threads : ThreadStep(t)
    \/ \E d \in {1, 5, 45} : Tick(d)

LeaseSpec == LeaseInit /\ [][LeaseNext]_vars

\* no caller of get_current_proxy() exists in the runs of the store
StoreInit == ProxyInitWith(0, 0) /\ StoreInitWith({"a1"}) /\ NoLoop

StoreSpec == StoreInit /\ [][StoreNext]_vars

\* WindowSpec: the failure and compensation operations of the store, with
\* the callers coming back one week or eight days later
WindowNext ==
    \/ \E a \in accounts : Initialize(a)
    \/ \E a \in accounts : UpdateStatus(a, "COMPLETED", NULL)
    \/ \E a \in accounts, m \in Msgs : UpdateStatus(a, "EXCEPTION", m)
    \/ \E a \in accounts : MarkCompleted(a)
    \/ \E a \in accounts, r \in Reasons : MarkFailed(a, r)
    \/ ResetAll
    \/ \E d \in {compensation_window, compensation_window + 1} : DaysPass(d)

WindowSpec == StoreInit /\ [][WindowNext]_vars

\* QuerySpec: get_pending_compensation_accounts applied to every table of
\* TimedTables, with and without a limit
QueryInit ==
    /\ ProxyInitWith(0, 0)
    /\ NoLoop
    /\ account_status = [a \in Accounts |-> NewRow(NameOf(a))]
    /\ compensation_history \in TimedTables
    /\ crawl_exception = <<>>
    /\ today = MaxDay
    /\ accounts = Accounts

QueryNext == \E limit \in 0..Cardinality(Accounts) : Query(limit)

QuerySpec == QueryInit /\ [][QueryNext]_vars

\* values of the account_name column of the records of one account: the
\* name its status row carries now, and the one it carried before the row
\* was created anew
RecordNames(a) == {NameOf(a), "old-" \o NameOf(a)}

\* the tables with at most one row per (account_id, failed_date) whose rows
\* carry either name of their account
NamedTables ==
    LET keys == Accounts \X (0..MaxDay)
        opts == {<<"absent", "">>} \cup ({"PENDING", "COMPLETED"} \X {"new", "old"})
    IN  {{[TimedRecord(k[1], k[2], f[k][1], 1) EXCEPT
               !.account_name = IF f[k][2] = "old" THEN "old-" \o NameOf(k[1])
                                ELSE NameOf(k[1])] :
              k \in {x \in keys : f[x][1] # "absent"}} : f \in [keys -> opts]}

\* NamesSpec: get_pending_compensation_accounts applied to every table of
\* NamedTables, with and without a limit
NamesInit ==
    /\ ProxyInitWith(0, 0)
    /\ NoLoop
    /\ account_status = [a \in Accounts |-> NewRow(NameOf(a))]
    /\ compensation_history \in NamedTables
    /\ crawl_exception = <<>>
    /\ today = MaxDay
    /\ accounts = Accounts

NamesSpec == NamesInit /\ [][QueryNext]_vars

(***************************************************************************)
(* Properties of the proxy lease                                           *)
(***************************************************************************)

\* callers that are inside the with self.proxy_lock block
InLockedSection(t) == pc[t] \in {"locked", "req", "resp"}

\* callers that are inside _get_new_proxy
Refreshing(t) == pc[t] \in {"req", "resp"}

\* C2: once fallback_after_failures refresh() calls in a row have failed
\* `enabled` is false, and a false `enabled` never becomes true again.
C2_Breaker ==
    /\ [](failStreak >= fallback_after_failures => ~enabled)
    /\ [][~enabled => ~enabled']_vars

\* the breaker has tripped after three failed rounds
C2_Witness ==
    /\ ~enabled
    /\ failStreak = fallback_after_failures
    /\ \E t \in threads : pc[t] = "ret" /\ ~res[t]

\* C3: once `enabled` is false no provider request is started and every
\* call that returns afterwards returns absent, also for callers that were
\* waiting on the mutex when the breaker tripped.
C3_DisabledMeansNoRequest ==
    [][~enabled =>
        \A t \in threads :
            /\ ~(pc[t] = "req" /\ pc'[t] = "resp")
            /\ (pc[t] # "idle" /\ pc'[t] = "idle") => result'[t] = None]_vars

\* C4: at most one caller is refreshing, exactly the holder of the mutex is
\* inside the locked section, and the lease fields change only in a step of
\* the caller that holds the mutex.
C4_MutualExclusion ==
    /\ [](/\ Cardinality({t \in threads : Refreshing(t)}) <= 1
          /\ \A t \in threads : InLockedSection(t) <=> proxy_lock = t)
    /\ [][leaseFields' # leaseFields =>
            \E t \in threads : proxy_lock = t /\ pc[t] = "resp" /\ pc'[t] # pc[t]]_vars

\* one caller refreshes while the other one waits for the mutex
C4_Witness ==
    \E t, u \in threads :
        /\ t # u
        /\ pc[t] = "resp"
        /\ pc[u] = "wait"
        /\ proxy_lock = t

\* C10: with `enabled` true the locked validity test lets the caller return
\* the cached address without a provider request exactly when a lease was
\* obtained and now < (instant of that refresh) + ip_lifetime - refresh_buffer;
\* otherwise the caller goes on to refresh, still holding the mutex.
C10_LeaseValidity ==
    [][\A t \in threads :
        (pc[t] = "locked" /\ pc'[t] # "locked" /\ enabled) =>
            LET fresh == /\ lastRefresh # NoExpiry
                         /\ now < lastRefresh + ip_lifetime - refresh_buffer
            IN  /\ fresh => /\ pc'[t] = "ret"
                            /\ res'[t] = TRUE
                            /\ attempt'[t] = 0
                            /\ upstream_proxy' = upstream_proxy
                            /\ upstream_proxy # None
                /\ ~fresh => /\ pc'[t] = "req"
                             /\ proxy_lock' = t]_vars

\* 45 seconds after a refresh the caller returns the cached address
C10_Witness ==
    \E t \in threads :
        /\ lastRefresh # NoExpiry
        /\ now = lastRefresh + 45
        /\ pc[t] = "idle"
        /\ attempt[t] = 0
        /\ result[t] = upstream_proxy
        /\ upstream_proxy # None

\* C11: a refresh() call whose max_retries attempts have all failed adds
\* exactly one to consecutive_failures, a failed attempt that is followed
\* by another attempt adds nothing, a successful refresh() sets the counter
\* to 0, and no other step changes the counter.
C11_FailureCounter ==
    [][/\ \A t \in threads :
            /\ ResponseFailLast(t) =>
                   /\ attempt[t] = max_retries
                   /\ consecutive_failures' = consecutive_failures + 1
            /\ ResponseFailRetry(t) => consecutive_failures' = consecutive_failures
            /\ (\E s \in Servers : ResponseOk(t, s)) => consecutive_failures' = 0
       /\ consecutive_failures' # consecutive_failures =>
              \E t \in threads :
                  \/ ResponseFailLast(t)
                  \/ \E s \in Servers : ResponseOk(t, s)]_vars

\* one refresh() call has used up its three attempts and the counter is 1
C11_Witness ==
    \E t \in threads :
        /\ pc[t] = "ret"
        /\ ~res[t]
        /\ attempt[t] = max_retries
        /\ consecutive_failures = 1

(***************************************************************************)
(* Properties of reset_all_accounts_to_pending                             *)
(***************************************************************************)

\* rows of fx_compensation_history for this account and day with this status
Recorded(hist, a, d, status) ==
    \E h \in hist :
        /\ h.account_id = a
        /\ h.failed_date = d
        /\ h.compensation_status = status

\* C1: every account that is EXCEPTION or FAILED when the reset starts has,
\* after the reset, a PENDING compensation record dated today, whatever
\* records it had before.
C1_CompensationSnapshot ==
    [][ResetAll =>
        \A a \in Accounts :
            (HasRow(account_status, a) /\ account_status[a].status \in FailedStatuses)
                => Recorded(compensation_history', a, today, "PENDING")]_vars

\* C7: in every state of the store a second reset on the same day leaves
\* the rows and the compensation records of the first one as they are and
\* reports success.
C7_ResetIdempotent ==
    LET once  == ResetAllAccountsToPending(account_status, compensation_history, today)
        twice == ResetAllAccountsToPending(once.tbl, once.hist, today)
    IN  /\ twice.tbl = once.tbl
        /\ twice.hist = once.hist
        /\ twice.ret = TRUE

\* a reset has just turned a failed account into a PENDING one with a
\* PENDING record of today
C7_Witness ==
    \E a \in accounts :
        /\ HasRow(account_status, a)
        /\ account_status[a].status = "PENDING"
        /\ account_status[a].last_failed_date = today
        /\ account_status[a].compensation_priority = 1
        /\ account_status[a].failed_reason_backup # NULL
        /\ Recorded(compensation_history, a, today, "PENDING")

\* C8: for an account that is EXCEPTION or FAILED before the reset,
\* consecutive_failures grows by one when last_failed_date was absent or
\* before today and stays as it is when last_failed_date was today;
\* last_failed_date is today afterwards.
C8_OncePerDay ==
    [][ResetAll =>
        \A a \in Accounts :
            (HasRow(account_status, a) /\ account_status[a].status \in FailedStatuses) =>
                LET old == account_status[a]
                    new == account_status'[a]
                IN  /\ new.last_failed_date = today
                    /\ new.consecutive_failures =
                           IF old.last_failed_date = NoDate \/ old.last_failed_date < today
                           THEN old.consecutive_failures + 1
                           ELSE old.consecutive_failures]_vars

\* C9: the reset reports success and leaves every row PENDING; a row that
\* was not PENDING has last_exception_msg and next_retry_time cleared, a row
\* that was PENDING is unchanged, and retry_count, compensation_priority,
\* consecutive_failures, last_failed_date and failed_reason_backup are not
\* cleared.
C9_ResetPhase ==
    [][ResetAll =>
        /\ ResetAllAccountsToPending(account_status, compensation_history, today).ret
        /\ \A a \in Accounts :
              LET old == account_status[a]
                  new == account_status'[a]
              IN  IF ~HasRow(account_status, a) THEN new = old
                  ELSE /\ new.status = "PENDING"
                       /\ old.status # "PENDING" =>
                              /\ new.last_exception_msg = NULL
                              /\ new.next_retry_time = NULL
                       /\ old.status = "PENDING" => new = old
                       /\ new.account_name = old.account_name
                       /\ new.retry_count = old.retry_count
                       /\ new.compensation_priority >= old.compensation_priority
                       /\ new.consecutive_failures >= old.consecutive_failures
                       /\ old.last_failed_date # NoDate => new.last_failed_date # NoDate
                       /\ old.failed_reason_backup # NULL =>
                              new.failed_reason_backup # NULL]_vars

\* a reset has acted on a failed row that carried a retry count and a
\* compensation flag: the row is PENDING, its message and retry time are
\* cleared and the tracking fields are still there
C9_Witness ==
    \E a \in accounts :
        /\ HasRow(account_status, a)
        /\ account_status[a].status = "PENDING"
        /\ account_status[a].last_exception_msg = NULL
        /\ account_status[a].next_retry_time = NULL
        /\ account_status[a].retry_count = 1
        /\ account_status[a].compensation_priority = 1
        /\ account_status[a].last_failed_date = today
        /\ account_status[a].failed_reason_backup # NULL

(***************************************************************************)
(* Properties of the outcome handling of a round                           *)
(***************************************************************************)

\* the account has a status row that says COMPLETED
CrawledOk(tbl, a) == HasRow(tbl, a) /\ tbl[a].status = "COMPLETED"

\* C5: after the full pass exits 0 the full-success check is true exactly
\* when the attempted list is not empty and every attempted account has a
\* status row that says COMPLETED.
C5_FullSuccessCriterion ==
    [][(rpc = "full_handle" /\ rpc' = "done" /\ outcome = "exit0") =>
        (all_ok' <=> /\ attempted # <<>>
                     /\ \A a \in Range(attempted) : CrawledOk(account_status, a))]_vars

\* C6: after the compensation pass exits 0 an attempted account that is not
\* COMPLETED keeps its compensation records and its compensation fields;
\* only an account that was crawled successfully is marked completed.
C6_CompensationJudgedIndividually ==
    [][(rpc = "comp_handle" /\ rpc' = "full" /\ outcome = "exit0") =>
        \A a \in Range(attempted) :
            ~CrawledOk(account_status, a) =>
                /\ {h \in compensation_history' : h.account_id = a}
                       = {h \in compensation_history : h.account_id = a}
                /\ account_status'[a] = account_status[a]]_vars

(***************************************************************************)
(* Properties of the compensation records                                  *)
(***************************************************************************)

\* a PENDING record of the account that failed more than 7 days before d
StalePending(h, a, d) ==
    /\ h.account_id = a
    /\ h.compensation_status = "PENDING"
    /\ h.failed_date < d - compensation_window

\* C12: mark_compensation_completed(X) and mark_compensation_failed(X)
\* leave every PENDING record of X that failed more than 7 days before
\* today as it is; mark_compensation_completed(X) still zeroes
\* compensation_priority and consecutive_failures of X's status row and
\* returns True.
C12_SevenDayWindow ==
    [][\A a \in Accounts :
        /\ MarkCompleted(a) =>
              /\ \A h \in compensation_history :
                     StalePending(h, a, today) => h \in compensation_history'
              /\ HasRow(account_status, a) =>
                     /\ account_status'[a].compensation_priority = 0
                     /\ account_status'[a].consecutive_failures = 0
              /\ MarkCompensationCompleted(account_status, compensation_history,
                                           a, today).ret
        /\ \A r \in Reasons :
              MarkFailed(a, r) =>
                  \A h \in compensation_history :
                      StalePending(h, a, today) => h \in compensation_history']_vars

\* the account was marked completed today: its record of today is
\* COMPLETED, its flag is 0, and its record of eight days ago is still PENDING
C12_Witness ==
    \E a \in accounts :
        /\ HasRow(account_status, a)
        /\ account_status[a].compensation_priority = 0
        /\ account_status[a].last_failed_date = today
        /\ \E h \in compensation_history : StalePending(h, a, today)
        /\ \E h \in compensation_history :
               /\ h.account_id = a
               /\ h.compensation_status = "COMPLETED"
               /\ h.compensation_date = today

\* MIN(failed_date) and MAX(update_time) over the PENDING rows of an account
EarliestPending(hist, a) ==
    LET ds == {h.failed_date : h \in {x \in hist : x.account_id = a
                                          /\ x.compensation_status = "PENDING"}}
    IN  CHOOSE d \in ds : \A e \in ds : d <= e

LatestUpdate(hist, a) ==
    LET us == {h.update_time : h \in {x \in hist : x.account_id = a
                                          /\ x.compensation_status = "PENDING"}}
    IN  CHOOSE u \in us : \A e \in us : u >= e

\* the list holds every account with a PENDING row once, by ascending
\* earliest PENDING failed_date and then by descending latest update_time
IsBacklogOrder(hist, list) ==
    /\ Range(list) = PendingAccounts(hist)
    /\ Len(list) = Cardinality(PendingAccounts(hist))
    /\ \A i, j \in 1..Len(list) :
           i < j =>
               \/ EarliestPending(hist, list[i]) < EarliestPending(hist, list[j])
               \/ /\ EarliestPending(hist, list[i]) = EarliestPending(hist, list[j])
                  /\ LatestUpdate(hist, list[i]) >= LatestUpdate(hist, list[j])

\* C13: without a limit get_pending_compensation_accounts() returns exactly
\* the accounts with a PENDING record, by ascending earliest PENDING
\* failed_date and, for equal dates, by descending latest update_time; with
\* a positive limit it returns the first `limit` entries of such a list.
C13_BacklogOrdering ==
    [][\A limit \in 0..Cardinality(Accounts) :
        Query(limit) =>
            \E full \in GetPendingCompensationAccounts(compensation_history, 0) :
                /\ IsBacklogOrder(compensation_history, full)
                /\ limit = 0 => pending' = full
                /\ limit > 0 =>
                       /\ Len(pending') = IF limit < Len(full) THEN limit ELSE Len(full)
                       /\ \A i \in 1..Len(pending') : pending'[i] = full[i]]_vars

\* two accounts failed on the same day, a2 was updated later and comes first
C13_Witness ==
    /\ pending = <<"a2", "a1">>
    /\ EarliestPending(compensation_history, "a1") =
           EarliestPending(compensation_history, "a2")
    /\ LatestUpdate(compensation_history, "a2") >
           LatestUpdate(compensation_history, "a1")

(***************************************************************************)
(* Properties of a round of the loop                                       *)
(***************************************************************************)

\* the outcomes of subprocess.run other than return code 0
FailureOutcomes == Outcomes \ {"exit0"}

\* the step ends a round that ran to its end (no exception left it)
RoundEnds == rpc # "done" /\ rpc' = "done" /\ ~RoundRaises

\* C14: when the full crawl exits 0 and _is_full_success is false, the
\* outcome handling leaves a record of today for every account that is
\* EXCEPTION or FAILED and appends one `unfinished` ledger entry; when
\* _is_full_success is true it appends one `finished` entry; for every
\* target list.
C14_PartialSuccess ==
    [][(StepFullHandle /\ outcome = "exit0") =>
        IF IsFullSuccess(account_status, attempted)
        THEN crawl_exception' = Append(crawl_exception, "finished")
        ELSE /\ crawl_exception' = Append(crawl_exception, "unfinished")
             /\ \A a \in Accounts :
                    (HasRow(account_status, a) /\ IsFailedRow(account_status[a])) =>
                        \E h \in compensation_history' :
                            h.account_id = a /\ h.failed_date = today]_vars

\* C15: a non-zero exit, a timeout and a launch exception leave the same
\* stores: in the full pass the failures are recorded and one `unfinished`
\* entry is appended, in the compensation pass every attempted account is
\* marked compensation-failed and the ledger stays as it is.
C15_UniformFailureHandling ==
    \A o1, o2 \in FailureOutcomes :
        /\ rpc = "full_handle" =>
               LET r1 == FullOutcome(account_status, compensation_history,
                                     crawl_exception, attempted, o1, is_test_mode, today)
                   r2 == FullOutcome(account_status, compensation_history,
                                     crawl_exception, attempted, o2, is_test_mode, today)
               IN  /\ r1 = r2
                   /\ r1.hist = RecordFailedAccountsForCompensation(
                                    account_status, compensation_history, today)
                   /\ r1.ledger = Append(crawl_exception, "unfinished")
        /\ rpc = "comp_handle" =>
               CompOutcome(account_status, compensation_history, attempted, o1, today)
                   = CompOutcome(account_status, compensation_history, attempted, o2, today)

\* C16: every round that runs to its end has appended exactly one ledger
\* entry, `finished` or `unfinished` (the ledger is written by the steps
\* that end a round and by no other step), and the entries that exist are
\* neither changed nor removed.
C16_LedgerCardinality ==
    [][/\ RoundEnds =>
              \E e \in {"finished", "unfinished"} :
                  crawl_exception' = Append(crawl_exception, e)
       /\ ~RoundEnds => crawl_exception' = crawl_exception]_vars

\* C17: with --dry-run the crawl executable is never running, with --once
\* and in loop mode; the compensation pass marks the pending accounts
\* completed and the full pass appends a `finished` entry.
C17_DryRun ==
    /\ [](run_args.dry_run => rpc \notin {"comp_wait", "full_wait"})
    /\ [][run_args.dry_run =>
            /\ rpc = "comp" =>
                   LET r == MarkAllCompleted(account_status, compensation_history,
                                             pending, today)
                   IN  /\ account_status' = r.tbl
                       /\ compensation_history' = r.hist
            /\ (rpc = "full" /\ run_args.excel_exists) =>
                   crawl_exception' = Append(crawl_exception, "finished")]_vars

\* the order of the positions inside one round
Rank(p) ==
    CASE p = "start" -> 0
      [] p = "query" -> 1
      [] p = "comp" -> 2
      [] p = "comp_wait" -> 3
      [] p = "comp_handle" -> 4
      [] p = "full" -> 5
      [] p = "full_wait" -> 6
      [] p = "full_handle" -> 7
      [] p = "done" -> 8
      [] OTHER -> 9

\* the steps of one round follow the order reset, query, compensation
\* crawl, full crawl; a round starts only when the one before has ended
StepsInOrder ==
    /\ (round_num' = round_num /\ rpc' # rpc /\ rpc' # "interrupted") =>
           Rank(rpc') > Rank(rpc)
    /\ (rpc = "start" /\ rpc' \notin {"start", "interrupted"}) =>
           /\ rpc' = "query"
           /\ StepReset \/ StepResetFails
    /\ pending' # pending => rpc = "query"
    /\ rpc' = "comp_wait" => rpc \in {"comp", "comp_wait"}
    /\ rpc' = "full_wait" => rpc \in {"full", "full_wait"}
    /\ round_num' # round_num =>
           /\ rpc = "done"
           /\ rpc' = "start"
           /\ round_num' = round_num + 1

C19_FailureContainment ==
    \A n \in 1..(MaxRounds - 1) :
        (round_num = n /\ ~run_args.once)
            ~> \/ round_num = n + 1
               \/ rpc = "interrupted"
               \/ rpc = "done" /\ is_test_mode

\* round 1 found a backlog and was left by an exception before the
\* compensation crawl was launched; round 2 has started
C19_Witness ==
    /\ ~run_args.once
    /\ round_num = 2
    /\ rpc = "start"
    /\ pending # <<>>
    /\ attempted = <<>>

Max0(x) == IF x > 0 THEN x ELSE 0

\* with --once, and in loop mode with a test list, one round is run and
\* the loop does not sleep
OneRound ==
    /\ run_args.once => round_num = 1 /\ sleep_time = 0
    /\ (~run_args.once /\ is_test_mode) => round_num = 1 /\ sleep_time = 0

\* C20 as stated: one round with --once or a test list; otherwise the loop
\* sleeps max(0, interval - elapsed) and starts another round.
C20_SingleShotTermination ==
    /\ []OneRound
    /\ [][\A h \in ElapsedHalves :
            NextRound(h) =>
                /\ 2 * sleep_time' = Max0(2 * interval_seconds - h)
                /\ rpc' = "start"]_vars

\* C20, amended: one round with --once or a test list; otherwise the loop
\* sleeps max(0, interval - int(elapsed)) seconds, elapsed cut to whole
\* seconds, and starts another round.
C20_SingleShotAmended ==
    /\ []OneRound
    /\ [][\A h \in ElapsedHalves :
            NextRound(h) =>
                /\ sleep_time' = Max0(interval_seconds - h \div 2)
                /\ rpc' = "start"]_vars

\* round 1 took 10 or 10.5 seconds, the loop slept 50 seconds and round 2
\* starts
C20_Witness ==
    /\ ~run_args.once
    /\ round_num = 2
    /\ rpc = "start"
    /\ sleep_time = 50

(***************************************************************************)
(* Properties of mark_compensation_completed and mark_compensation_failed  *)
(***************************************************************************)

\* the PENDING records of the account inside the trailing 7 days
WindowPending(hist, a, d) == {h \in hist : InWindow(h, a, d)}

\* the most recent of them
MostRecent(hs) == CHOOSE h \in hs : \A g \in hs : g.failed_date <= h.failed_date

\* C21: mark_compensation_completed(a) changes exactly one record, the most
\* recent PENDING record of a inside the trailing 7 days, to COMPLETED; the
\* other PENDING records of a stay PENDING; a second call changes no further
\* record and reports success.
C21_CompletesMostRecentOnly ==
    [][\A a \in Accounts :
        MarkCompleted(a) =>
            LET ps    == WindowPending(compensation_history, a, today)
                once  == MarkCompensationCompleted(account_status,
                                                   compensation_history, a, today)
                twice == MarkCompensationCompleted(once.tbl, once.hist, a, today)
            IN  /\ ps # {} =>
                       compensation_history' =
                           (compensation_history \ {MostRecent(ps)}) \cup
                               {[MostRecent(ps) EXCEPT
                                    !.compensation_status = "COMPLETED",
                                    !.compensation_date = today]}
                /\ ps = {} => compensation_history' = compensation_history
                /\ twice.hist = once.hist
                /\ twice.ret]_vars

\* C22: mark_compensation_failed(a, reason) on an account of the store: when
\* a has no PENDING record inside the trailing 7 days, a FAILED record for
\* (a, today) exists after the call and the call reports success, whatever
\* other records a has; when a has such PENDING records they become FAILED
\* and no record is inserted.
C22_FailedRecordInserted ==
    \A a \in accounts, r \in Reasons :
        HasRow(account_status, a) =>
            LET ps  == WindowPending(compensation_history, a, today)
                out == MarkCompensationFailed(account_status, compensation_history,
                                              a, r, today)
            IN  IF ps = {}
                THEN /\ Recorded(out.hist, a, today, "FAILED")
                     /\ out.ret
                ELSE /\ out.hist =
                            (compensation_history \ ps) \cup
                                {[h EXCEPT !.compensation_status = "FAILED",
                                           !.failure_reason = r] : h \in ps}
                     /\ Cardinality(out.hist) = Cardinality(compensation_history)

(***************************************************************************)
(* Properties of the tables as a whole                                     *)
(***************************************************************************)

\* the unique index of fx_compensation_history
UniqueKey(h) == <<h.account_id, h.failed_date>>

\* no two rows of the table share the unique index
IsUnique(hist) == \A h \in hist, g \in hist : UniqueKey(h) = UniqueKey(g) => h = g

\* C23: in every state reachable by resets, recordings of the current
\* failures and completed / failed marks there is at most one compensation
\* record per (account_id, failed_date); recording the same day's failure
\* again updates the reason of the existing record and adds no row.
C23_UniqueRecords ==
    LET out    == RecordFailedAccountsForCompensation(account_status,
                                                      compensation_history, today)
        failed == {a \in Accounts : /\ HasRow(account_status, a)
                                    /\ account_status[a].status \in FailedStatuses}
        fresh  == {a \in failed : KeyRows(compensation_history, a, today) = {}}
    IN  /\ IsUnique(compensation_history)
        /\ IsUnique(out)
        /\ Cardinality(out) = Cardinality(compensation_history) + Cardinality(fresh)
        /\ \A a \in failed \ fresh :
               KeyRows(out, a, today) =
                   {[h EXCEPT !.failure_reason = FailureReason(account_status[a])] :
                        h \in KeyRows(compensation_history, a, today)}

\* the failure of an account was recorded a second time on the same day with
\* another message: its record of today, which a failed mark had closed,
\* carries the new reason
C23_Witness ==
    \E a \in accounts, h \in compensation_history :
        /\ UniqueKey(h) = <<a, today>>
        /\ h.compensation_status = "FAILED"
        /\ h.failure_reason \in Msgs
        /\ HasRow(account_status, a)
        /\ account_status[a].status \in FailedStatuses

\* the status values of spec section 3 and of the docstring of
\* update_account_status, with FAILED
StatusEnum == {"PENDING", "PROCESSING", "COMPLETED", "EXCEPTION", "FAILED", "RETRYING"}

\* C24: in every reachable state the status of every row of
\* fx_account_status is one of PENDING, PROCESSING, COMPLETED, EXCEPTION,
\* FAILED, RETRYING; no operation of the store writes another value.
C24_ClosedStatusEnum ==
    \A a \in Accounts :
        HasRow(account_status, a) => account_status[a].status \in StatusEnum

\* C25: an account that is COMPLETED when the reset runs has
\* consecutive_failures = 0 after it, so that a later failure of the account
\* counts from 1 again: the reset that finds the account failed for the
\* first time on a day, with the counter at 0, leaves the counter at 1.
C25_ResetOnCompleted ==
    [][ResetAll =>
        \A a \in Accounts :
            HasRow(account_status, a) =>
                LET old == account_status[a]
                    new == account_status'[a]
                IN  /\ old.status = "COMPLETED" => new.consecutive_failures = 0
                    /\ (/\ old.status \in FailedStatuses
                        /\ old.consecutive_failures = 0
                        /\ (old.last_failed_date = NoDate \/ old.last_failed_date < today))
                           => new.consecutive_failures = 1]_vars

\* C26: when a persistence error occurs inside reset_all_accounts_to_pending
\* the operation reports failure and both tables are exactly as they were
\* before the call.
C26_AtomicFailure ==
    [][StepResetFails =>
        /\ account_status' = account_status
        /\ compensation_history' = compensation_history]_vars

(***************************************************************************)
(* Frame properties                                                        *)
(***************************************************************************)

\* the compensation records of one account
RecordsOf(hist, a) == {h \in hist : h.account_id = a}

\* C27: the outcome handling of a compensation pass, whatever the outcome,
\* leaves the compensation records and the status row of every account
\* that is not in the attempted list as they are.
C27_CompensationScope ==
    [][StepCompHandle =>
        \A a \in Accounts \ Range(attempted) :
            /\ account_status'[a] = account_status[a]
            /\ RecordsOf(compensation_history', a) =
                   RecordsOf(compensation_history, a)]_vars

\* a compensation pass has been handled while an account outside the
\* attempted list had a closed record and was still flagged for compensation
C27_Witness ==
    /\ rpc = "full"
    /\ pending # <<>>
    /\ attempted = pending
    /\ outcome # "n/a"
    /\ \E a \in Accounts \ Range(attempted) :
           /\ HasRow(account_status, a)
           /\ account_status[a].compensation_priority = 1
           /\ \E h \in RecordsOf(compensation_history, a) :
                  h.compensation_status = "FAILED"

\* the names a target list may give to an account
TargetNames(a) == {NameOf(a), "renamed"}

\* C28: initialize_account_status on an account that has a row leaves the
\* whole table as it is (status, retry_count, compensation_priority,
\* consecutive_failures, last_failed_date and failed_reason_backup of the
\* row included); on a new account it inserts one row with status PENDING
\* and retry_count 0 and leaves the other rows as they are.
C28_InitializeKeepsRow ==
    \A a \in accounts : \A name \in TargetNames(a) :
        LET out == InitializeAccountStatus(account_status, a, name)
        IN  IF HasRow(account_status, a)
            THEN out = account_status
            ELSE /\ HasRow(out, a)
                 /\ out[a].account_name = name
                 /\ out[a].status = "PENDING"
                 /\ out[a].retry_count = 0
                 /\ \A b \in Accounts \ {a} : out[b] = account_status[b]

\* the crawler works on an account that was reset after a failure and a
\* retry: its row was there when the run initialised it, and it carries
\* its compensation tracking
C28_Witness ==
    \E a \in accounts :
        /\ HasRow(account_status, a)
        /\ account_status[a].status = "PROCESSING"
        /\ account_status[a].retry_count = 1
        /\ account_status[a].compensation_priority = 1
        /\ account_status[a].last_failed_date = today
        /\ account_status[a].failed_reason_backup # NULL

\* C29: apart from update_account_status, which writes the status its
\* caller passes, and reset_all_accounts_to_pending, no operation of the
\* store changes the status of a row.
C29_StatusExternallyDriven ==
    [][(\E a \in Accounts :
            /\ HasRow(account_status, a)
            /\ account_status'[a].status # account_status[a].status)
        => \/ ResetAll
           \/ \E a \in Accounts, s \in StatusEnum, m \in Msgs \cup {NULL} :
                  UpdateStatus(a, s, m)]_vars

(***************************************************************************)
(* Properties of one refresh                                               *)
(***************************************************************************)

\* the requests and the waits of a call of _get_new_proxy: at most
\* max_retries requests, a wait after every failed attempt but the last
BoundedAttempts ==
    \A t \in threads :
        /\ attempt[t] <= max_retries
        /\ pc[t] = "req" => waits[t] = attempt[t]
        /\ (pc[t] \in {"resp", "ret"} /\ attempt[t] > 0) => waits[t] = attempt[t] - 1

\* the call stops at the first successful attempt
StopsAtSuccess ==
    \A t \in threads : \A s \in Servers :
        ResponseOk(t, s) => /\ pc'[t] = "ret"
                            /\ res'[t]
                            /\ attempt'[t] = attempt[t]
                            /\ waits'[t] = waits[t]

\* C30: one refresh() call issues at most max_retries provider requests,
\* stops at the first successful one, waits retry_delay only between
\* attempts and not after the last, and always ends by returning success or
\* failure.
C30_BoundedRetry ==
    /\ []BoundedAttempts
    /\ [][StopsAtSuccess]_vars
    /\ [](\A t \in threads : result[t] # "raised")

\* the retry loop alone: the part of C30 that does not depend on how the
\* call ends
RetryLoopBounded == []BoundedAttempts /\ [][StopsAtSuccess]_vars

(***************************************************************************)
(* Properties of provider answers                                          *)
(***************************************************************************)

\* the caller's attempt ends in this step without a server address
AttemptEndsWithoutServer(t) ==
    /\ pc[t] = "resp"
    /\ pc'[t] # "resp"
    /\ ~ \E s \in Servers : ResponseOk(t, s)

\* C31: a provider answer that cannot be turned into a server address is an
\* ordinary failure: the attempt is followed by the next attempt or, after
\* the last one, refresh() returns failure with the counter incremented
\* once, and no exception leaves get_current_proxy().
C31_UnparseableIsFailure ==
    [][\A t \in threads :
        AttemptEndsWithoutServer(t) =>
            /\ result'[t] # "raised"
            /\ \/ /\ attempt[t] < max_retries
                  /\ pc'[t] = "req"
                  /\ consecutive_failures' = consecutive_failures
               \/ /\ attempt[t] = max_retries
                  /\ pc'[t] = "ret"
                  /\ ~res'[t]
                  /\ consecutive_failures' = consecutive_failures + 1]_vars

(***************************************************************************)
(* Properties of test mode                                                 *)
(***************************************************************************)

\* C32: in test mode (the base name of the target list contains 'test')
\* the outcome handling of the full pass appends no ledger entry and
\* records nothing into the compensation history, whatever the outcome of
\* the crawl executable.
C32_TestModeWritesNothing ==
    [][(StepFullHandle /\ is_test_mode) =>
        /\ crawl_exception' = crawl_exception
        /\ compensation_history' = compensation_history]_vars

(***************************************************************************)
(* Properties of the backlog                                               *)
(***************************************************************************)

\* the last crawl of the executable has exited 0 and has left every
\* attempted account with a status row that is COMPLETED
GoodCrawl ==
    rpc \in {"comp_handle", "full_handle", "done"} =>
        /\ outcome = "exit0"
        /\ \A a \in Range(attempted) :
               HasRow(account_status, a) /\ account_status[a].status = "COMPLETED"

\* get_pending_compensation_accounts() returns the empty list
BacklogEmpty == PendingAccounts(compensation_history) = {}

RecentBacklogDrains ==
    (<>[]GoodCrawl) =>
        <>[](\A h \in compensation_history :
                h.compensation_status = "PENDING" =>
                    StalePending(h, h.account_id, today))

(***************************************************************************)
(* Properties of compensation_status                                       *)
(***************************************************************************)

\* the closed values of compensation_status
TerminalStatuses == {"COMPLETED", "FAILED"}

\* from table h1 to table h2 every record is kept under its key, and a
\* record whose compensation_status differs went from PENDING to COMPLETED
\* or to FAILED
LegalHistoryStep(h1, h2) ==
    \A h \in h1 :
        /\ \E g \in h2 : UniqueKey(g) = UniqueKey(h)
        /\ \A g \in h2 :
               (UniqueKey(g) = UniqueKey(h)
                   /\ g.compensation_status # h.compensation_status) =>
                   /\ h.compensation_status = "PENDING"
                   /\ g.compensation_status \in TerminalStatuses

\* C34: no operation takes a COMPLETED or FAILED record back to PENDING,
\* the only changes of compensation_status are PENDING to COMPLETED and
\* PENDING to FAILED, and recording a failure again for the same
\* (account_id, failed_date) changes nothing of the record but its
\* failure_reason.
C34_TerminalStates ==
    LET hist == compensation_history
        rec  == RecordFailedAccountsForCompensation(account_status, hist, today)
    IN  /\ LegalHistoryStep(hist, rec)
        /\ \A h \in hist :
               \E g \in rec : g = [h EXCEPT !.failure_reason = g.failure_reason]
        /\ LegalHistoryStep(hist,
               ResetAllAccountsToPending(account_status, hist, today).hist)
        /\ \A a \in accounts :
               /\ LegalHistoryStep(hist,
                      MarkCompensationCompleted(account_status, hist, a, today).hist)
               /\ \A r \in Reasons \cup {NULL} :
                      LegalHistoryStep(hist,
                          MarkCompensationFailed(account_status, hist, a, r, today).hist)

\* the account fails again on the day its record was completed
C34_Witness ==
    \E a \in accounts :
        /\ HasRow(account_status, a)
        /\ IsFailedRow(account_status[a])
        /\ \E h \in compensation_history :
               /\ UniqueKey(h) = <<a, today>>
               /\ h.compensation_status = "COMPLETED"

(***************************************************************************)
(* Properties of consecutive_failures                                      *)
(***************************************************************************)

\* C35: for every interleaving of the callers of get_current_proxy(),
\* 0 <= consecutive_failures <= fallback_after_failures in every reachable
\* state, and the counter does not change once the breaker has tripped.
C35_CounterBound ==
    /\ [](0 <= consecutive_failures /\ consecutive_failures <= fallback_after_failures)
    /\ [][~enabled => consecutive_failures' = consecutive_failures]_vars

(***************************************************************************)
(* Properties of the `finished` entry                                      *)
(***************************************************************************)

\* the statuses of a row whose crawl has not succeeded
UnfinishedStatuses == {"EXCEPTION", "FAILED", "RETRYING", "PROCESSING", "PENDING"}

\* the step appends a `finished` entry to the ledger
AppendsFinished == crawl_exception' = Append(crawl_exception, "finished")

\* C36: in a round that is not a dry run, when the full pass appends a
\* `finished` ledger entry the crawl executable has exited 0 and no
\* attempted account has a status row that is EXCEPTION, FAILED, RETRYING,
\* PROCESSING or PENDING; `finished` is never appended after a non-zero
\* exit, a timeout or a launch exception.
C36_FinishedIsSound ==
    [][(AppendsFinished /\ ~DryRun) =>
        /\ rpc = "full_handle"
        /\ outcome = "exit0"
        /\ \A a \in Range(attempted) :
               HasRow(account_status, a) =>
                   account_status[a].status \notin UnfinishedStatuses]_vars

\* a round on a1, a2 has just appended `finished` after an earlier round
\* in which an account had failed
C36_Witness ==
    /\ rpc = "done"
    /\ outcome = "exit0"
    /\ all_ok
    /\ attempted = <<"a1", "a2">>
    /\ Len(crawl_exception) = 2
    /\ crawl_exception[1] = "unfinished"
    /\ crawl_exception[2] = "finished"
    /\ \A a \in Range(attempted) : CrawledOk(account_status, a)

(***************************************************************************)
(* Properties of a failed refresh                                          *)
(***************************************************************************)

\* C37: a refresh() call that fails leaves upstream_proxy and
\* proxy_expiry_time as they are, and the get_current_proxy() call that
\* triggered it returns absent, also when the cached address has not yet
\* reached its expiry_time.
C37_FailedRefreshServesNothing ==
    [][\A t \in threads :
        /\ ResponseFailLast(t) =>
               /\ upstream_proxy' = upstream_proxy
               /\ proxy_expiry_time' = proxy_expiry_time
               /\ ~res'[t]
        /\ (pc[t] = "ret" /\ ~res[t] /\ pc'[t] = "idle") =>
               /\ result'[t] = None
               /\ upstream_proxy' = upstream_proxy
               /\ proxy_expiry_time' = proxy_expiry_time]_vars

\* the refresh inside the buffer has failed: the caller got nothing while
\* the cached address is still there and has not expired
C37_Witness ==
    \E t \in threads :
        /\ pc[t] = "idle"
        /\ attempt[t] = max_retries
        /\ result[t] = None
        /\ upstream_proxy # None
        /\ now >= proxy_expiry_time - refresh_buffer
        /\ now < proxy_expiry_time

(***************************************************************************)
(* Properties of the compensation target list                              *)
(***************************************************************************)

====
